---- MODULE Spec2Model ----
(***************************************************************************)
(* A model of the Eulerian fluid simulation of src/src/sim.rs: the         *)
(* staggered grid state (u, v, s, p, smoke), construction, obstacle        *)
(* editing, reset, and step() = projection; advection; smoke_advection.    *)
(*                                                                         *)
(* Numbers.  The code computes in f64.  The model computes in exact        *)
(* arithmetic on numbers a + b*EPSILON, a and b rationals, where EPSILON   *)
(* (sim.rs:2, 1e-11) is kept symbolic and terms in EPSILON^2 are dropped.  *)
(* A rational whose numerator or denominator outgrows Cap is no longer     *)
(* tracked: the number becomes Top ("some f64 the model does not know"),   *)
(* and every operation on Top yields Top.  No branch of the code modelled  *)
(* here is decided by a Top value except inside sampling, whose result is  *)
(* then Top as well.                                                       *)
(***************************************************************************)
EXTENDS Integers, Sequences, FiniteSets, TLC

VARIABLES width, height, u, v, s, p, smoke, pc, cur, last, pre, ops, out

vars == <<width, height, u, v, s, p, smoke, pc, cur, last, pre, ops, out>>

(***************************************************************************)
(* Bounds of the model.                                                    *)
(***************************************************************************)
\* Largest grid offered to new: MaxWidth by MaxHeight (73 is the smallest
\* height for which the band seeding of new stays in range).
MaxWidth == 2
MaxHeight == 73
\* Calls of draw_obstacle and of step since construction or the last reset.
MaxStamps == 2
MaxSteps == 1
\* Calls of gravitation since construction or the last reset.
MaxGravs == 1
\* Executions of projection's loop body taken one at a time in each step.
MaxVisits == 2
\* Largest numerator and denominator of a tracked rational.
Cap == 30000
\* A tracked number carries less than MaxEps times EPSILON.
MaxEps == 50

(***************************************************************************)
(* Program constants (sim.rs:18-26).                                       *)
(***************************************************************************)
NUM_PROJ_ITERATIONS == 100
BAND_WIDTH == 5
NUM_BANDS == 9

(***************************************************************************)
(* Rationals <<n, d>>, d > 0, in lowest terms; <<0, 0>> is "not tracked".  *)
(***************************************************************************)
RBad == <<0, 0>>
R0 == <<0, 1>>
R1 == <<1, 1>>

RIsBad(r) == r[2] = 0

Abs(n) == IF n < 0 THEN -n ELSE n

RECURSIVE GCD(_, _)
GCD(a, b) == IF b = 0 THEN a ELSE GCD(b, a % b)

RNorm(n, d) ==
    LET g == GCD(Abs(n), d)
        n2 == n \div g
        d2 == d \div g
    IN  IF Abs(n2) > Cap \/ d2 > Cap THEN RBad ELSE <<n2, d2>>

RNeg(x) == IF RIsBad(x) THEN RBad ELSE <<-x[1], x[2]>>

RAdd(x, y) ==
    IF RIsBad(x) \/ RIsBad(y) THEN RBad
    ELSE IF x[1] = 0 THEN y
    ELSE IF y[1] = 0 THEN x
    ELSE RNorm(x[1] * y[2] + y[1] * x[2], x[2] * y[2])

RSub(x, y) == RAdd(x, RNeg(y))

RMul(x, y) ==
    IF RIsBad(x) \/ RIsBad(y) THEN RBad
    ELSE IF x[1] = 0 \/ y[1] = 0 THEN R0
    ELSE RNorm(x[1] * y[1], x[2] * y[2])

\* 1/x for x # 0
RInv(x) ==
    IF RIsBad(x) \/ x[1] = 0 THEN RBad
    ELSE IF x[1] < 0 THEN <<-x[2], -x[1]>> ELSE <<x[2], x[1]>>

RDiv(x, y) == RMul(x, RInv(y))

RLess(x, y) == x[1] * y[2] < y[1] * x[2]

(***************************************************************************)
(* Numbers a + b*EPSILON.                                                  *)
(***************************************************************************)
Top == [a |-> RBad, b |-> RBad]

\* The multiple b of EPSILON is small enough to be tracked.
REpsOk(b) == Abs(b[1]) < MaxEps * b[2]

IsTop(x) == RIsBad(x.a) \/ RIsBad(x.b) \/ ~REpsOk(x.b)

Mk(a, b) ==
    IF RIsBad(a) \/ RIsBad(b) \/ ~REpsOk(b) THEN Top ELSE [a |-> a, b |-> b]

Num(n, d) == [a |-> <<n, d>>, b |-> R0]

Zero == Num(0, 1)
One == Num(1, 1)
Half == Num(1, 2)
Quarter == Num(1, 4)

Add(x, y) ==
    IF IsTop(x) \/ IsTop(y) THEN Top
    ELSE Mk(RAdd(x.a, y.a), RAdd(x.b, y.b))

Neg(x) == IF IsTop(x) THEN Top ELSE [a |-> RNeg(x.a), b |-> RNeg(x.b)]

Sub(x, y) == Add(x, Neg(y))

Mul(x, y) ==
    IF IsTop(x) \/ IsTop(y) THEN Top
    ELSE Mk(RMul(x.a, y.a), RAdd(RMul(x.a, y.b), RMul(x.b, y.a)))

\* x / y.  With y = ya + yb*EPSILON and ya # 0, 1/y = 1/ya - (yb/ya^2)*EPSILON.
\* With ya = 0 the quotient is of the order 1/EPSILON (or a division by
\* zero) unless x is exactly 0: it is then not tracked.
Div(x, y) ==
    IF IsTop(x) \/ IsTop(y) THEN Top
    ELSE IF y.a[1] # 0
         THEN Mul(x, Mk(RInv(y.a), RNeg(RDiv(y.b, RMul(y.a, y.a)))))
    ELSE IF x = Zero /\ y.b[1] # 0 THEN Zero
    ELSE Top

\* x < y for tracked x and y.  Rational parts that differ do so by at least
\* 1/Cap^2, which is more than the 2 * MaxEps * EPSILON (EPSILON = 1e-11) by
\* which the EPSILON parts can differ, so the order of the values is the
\* order of the rational parts and, when these are equal, of the EPSILON
\* parts.
Less(x, y) == RLess(x.a, y.a) \/ (x.a = y.a /\ RLess(x.b, y.b))

\* f64::min and f64::max
FMin(x, y) == IF IsTop(x) \/ IsTop(y) THEN Top ELSE IF Less(y, x) THEN y ELSE x

FMax(x, y) == IF IsTop(x) \/ IsTop(y) THEN Top ELSE IF Less(x, y) THEN y ELSE x

\* usize as f64
FromInt(n) == Num(n, 1)

IMin(a, b) == IF a < b THEN a ELSE b

(***************************************************************************)
(* The constants of sim.rs:2-29 as numbers.                                *)
(***************************************************************************)
EPSILON == [a |-> R0, b |-> R1]
OVERRELAXATION_FACTOR == Num(97, 50)
DENSITY == Num(10, 1)
GRAVITY == Num(36, 5)
WINDSPEED == Num(10, 1)
DT == Num(11, 50)
H == Num(2, 5)
FLUID == One
SOLID == Neg(EPSILON)

(***************************************************************************)
(* Array2D (crate::util, not among the sources): a dense container indexed *)
(* by (x, y) with bounds-checked indexing, zero/constant fill and          *)
(* circular-region stamping.  An array is a function on its index set.     *)
(***************************************************************************)
Indices(w, h) == (0 .. w - 1) \X (0 .. h - 1)

ArrayFill(val, w, h) == [c \in Indices(w, h) |-> val]

ArrayNew(w, h) == ArrayFill(Zero, w, h)

InBounds(x, y, w, h) == x >= 0 /\ x < w /\ y >= 0 /\ y < h

\* fill_circle(cx, cy, radius, val), the radius given as r2 = 2 * radius:
\* every element whose index lies within the radius of (cx, cy) is set.
FillCircle(f, cx, cy, r2, val) ==
    [c \in DOMAIN f |->
        IF 4 * ((c[1] - cx) * (c[1] - cx) + (c[2] - cy) * (c[2] - cy)) <= r2 * r2
        THEN val ELSE f[c]]

(***************************************************************************)
(* Simulation::new (sim.rs:59-95).                                         *)
(***************************************************************************)
BandCenter(h, y) == (h \div NUM_BANDS) * y + (h \div NUM_BANDS) \div 2

\* The rows of column 0 that the band loop writes (sim.rs:77-84).
BandRows(h) ==
    UNION {{BandCenter(h, y) + i, BandCenter(h, y) - i} :
              y \in 0 .. NUM_BANDS - 1, i \in 0 .. BAND_WIDTH - 1}

\* new panics iff one of its indexings is out of bounds or `center - i`
\* underflows usize (a panic in a debug build; in a release build the
\* wrapped index is far out of bounds, a panic again).
NewPanics(w, h) ==
    \E r \in BandRows(h) : r < 0 \/ ~InBounds(0, r, w, h)

FreshU(w, h) ==
    [c \in Indices(w + 1, h) |->
        IF c[1] = 0 \/ c[1] = w THEN WINDSPEED ELSE Zero]

FreshS(w, h) == ArrayFill(FLUID, w, h)

FreshSmoke(w, h) ==
    [c \in Indices(w, h) |->
        IF c[1] = 0 /\ c[2] \in BandRows(h) THEN One ELSE Zero]

FreshV(w, h) == ArrayNew(w, h + 1)

FreshP(w, h) == ArrayNew(w, h)

Fields(fu, fv, fs, fp, fsmoke) ==
    [u |-> fu, v |-> fv, s |-> fs, p |-> fp, smoke |-> fsmoke]

NoFields == Fields(<<>>, <<>>, <<>>, <<>>, <<>>)

Current == Fields(u, v, s, p, smoke)

Op(name, x, y, r) == [op |-> name, x |-> x, y |-> y, r |-> r]

\* The sizes offered to new: none, one, and the largest of the model.
Widths == {0, 1, MaxWidth}

Heights == {0, 1, MaxHeight}

Init ==
    /\ width \in Widths
    /\ height \in Heights
    /\ u = <<>> /\ v = <<>> /\ s = <<>> /\ p = <<>> /\ smoke = <<>>
    /\ pc = "new"
    /\ cur = 0
    /\ last = Op("none", 0, 0, 0)
    /\ pre = NoFields
    /\ ops = [stamps |-> 0, steps |-> 0, gravs |-> 0]
    /\ out = Zero

Construct ==
    /\ pc = "new"
    /\ IF NewPanics(width, height)
       THEN /\ pc' = "panicked"
            /\ UNCHANGED <<u, v, s, p, smoke>>
       ELSE /\ pc' = "idle"
            /\ u' = FreshU(width, height)
            /\ v' = FreshV(width, height)
            /\ s' = FreshS(width, height)
            /\ p' = FreshP(width, height)
            /\ smoke' = FreshSmoke(width, height)
    /\ last' = Op("new", 0, 0, 0)
    /\ pre' = Current
    /\ UNCHANGED <<width, height, cur, ops, out>>

(***************************************************************************)
(* Obstacle editing and reset (sim.rs:264-280).  Edits happen between      *)
(* steps only (step takes &mut self).                                      *)
(***************************************************************************)
\* The obstacles offered to draw_obstacle, as <<centre row, 2 * radius>>: the
\* radius 2.5 the visualiser passes (vis.rs:126) centred on the top row, its
\* disc clipped by the grid edge, and the radius 0.0 centred on row 1, a
\* single cell.
Stamps == {<<0, 5>>, <<1, 0>>}

\* The centre columns offered to draw_obstacle: next to the left edge and
\* next to the right edge.
Centres == {0, width - 1}

\* draw_obstacle clearing the velocities over the obstacle's own disc only
DrawnNoMargin(f, cx, cy, r2) ==
    Fields(FillCircle(f.u, cx, cy, r2, Zero),
           FillCircle(f.v, cx, cy, r2, Zero),
           FillCircle(f.s, cx, cy, r2, SOLID),
           FillCircle(f.p, cx, cy, r2, Zero),
           FillCircle(f.smoke, cx, cy, r2, Zero))

\* draw_obstacle marking the disc on a cleared classification field
DrawnAfresh(f, cx, cy, r2) ==
    Fields(FillCircle(f.u, cx, cy, r2 + 2, Zero),
           FillCircle(f.v, cx, cy, r2 + 2, Zero),
           FillCircle([c \in DOMAIN f.s |-> FLUID], cx, cy, r2, SOLID),
           FillCircle(f.p, cx, cy, r2, Zero),
           FillCircle(f.smoke, cx, cy, r2, Zero))

Drawn(f, cx, cy, r2) ==
    Fields(FillCircle(f.u, cx, cy, r2 + 2, Zero),
           FillCircle(f.v, cx, cy, r2 + 2, Zero),
           FillCircle(f.s, cx, cy, r2, SOLID),
           FillCircle(f.p, cx, cy, r2, Zero),
           FillCircle(f.smoke, cx, cy, r2, Zero))

DrawObstacle(cx, cy, r2) ==
    /\ pc = "idle"
    /\ ops.stamps < MaxStamps
    /\ LET f == Drawn(Current, cx, cy, r2)
       IN  /\ u' = f.u /\ v' = f.v /\ s' = f.s /\ p' = f.p /\ smoke' = f.smoke
    /\ last' = Op("draw_obstacle", cx, cy, r2)
    /\ pre' = Current
    /\ ops' = [ops EXCEPT !.stamps = @ + 1]
    /\ UNCHANGED <<width, height, pc, cur, out>>

\* reset: *self = Self::new(self.width, self.height)
Reset ==
    /\ pc = "idle"
    /\ u' = FreshU(width, height)
    /\ v' = FreshV(width, height)
    /\ s' = FreshS(width, height)
    /\ p' = FreshP(width, height)
    /\ smoke' = FreshSmoke(width, height)
    /\ last' = Op("reset", 0, 0, 0)
    /\ pre' = Current
    /\ ops' = [stamps |-> 0, steps |-> 0, gravs |-> 0]
    /\ UNCHANGED <<width, height, pc, cur, out>>

\* reset_except_walls that also keeps the scalar field
ResetExceptWallsKeepsSmoke ==
    /\ pc = "idle"
    /\ u' = FreshU(width, height)
    /\ v' = FreshV(width, height)
    /\ s' = s
    /\ p' = FreshP(width, height)
    /\ smoke' = smoke
    /\ last' = Op("reset_except_walls", 0, 0, 0)
    /\ pre' = Current
    /\ ops' = [ops EXCEPT !.steps = 0, !.gravs = 0]
    /\ UNCHANGED <<width, height, pc, cur, out>>

\* reset_except_walls: old_s = s.clone(); reset(); s = old_s
ResetExceptWalls ==
    /\ pc = "idle"
    /\ u' = FreshU(width, height)
    /\ v' = FreshV(width, height)
    /\ s' = s
    /\ p' = FreshP(width, height)
    /\ smoke' = FreshSmoke(width, height)
    /\ last' = Op("reset_except_walls", 0, 0, 0)
    /\ pre' = Current
    /\ ops' = [ops EXCEPT !.steps = 0, !.gravs = 0]
    /\ UNCHANGED <<width, height, pc, cur, out>>

(***************************************************************************)
(* Classification queries (sim.rs:137-155).                                *)
(***************************************************************************)
\* fn s(x, y): the stored value in bounds, SOLID one step outside; further
\* out the code panics, which no caller below reaches (Top stands for it).
Classify(x, y) ==
    IF InBounds(x, y, width, height) THEN s[<<x, y>>]
    ELSE IF x = -1 \/ x = width \/ y = -1 \/ y = height THEN SOLID
    ELSE Top

OpenU(x, y) == Classify(x, y) = FLUID /\ Classify(x - 1, y) = FLUID

OpenV(x, y) == Classify(x, y) = FLUID /\ Classify(x, y - 1) = FLUID

AvgU(fu, x, y) ==
    Mul(Add(Add(Add(fu[<<x, y - 1>>], fu[<<x, y>>]), fu[<<x + 1, y - 1>>]),
            fu[<<x + 1, y>>]), Quarter)

AvgV(fv, x, y) ==
    Mul(Add(Add(Add(fv[<<x - 1, y>>], fv[<<x, y>>]), fv[<<x - 1, y + 1>>]),
            fv[<<x, y + 1>>]), Quarter)

(***************************************************************************)
(* Field sampling (sim.rs:31-56, 164-166).                                 *)
(***************************************************************************)
\* The clamp of one axis without its lower bound
ClampUpperOnly(xin, dim) == FMin(xin, Mul(FromInt(dim), H))

\* The clamp of one axis: H.max(x_in.min(dim as f64 * H))
Clamp(xin, dim) == FMax(H, FMin(xin, Mul(FromInt(dim), H)))

\* f64 as usize: a negative value saturates to 0
AsUsize(n) == IF n < 0 THEN 0 ELSE n

\* The two ways an f64 quotient that is a whole number in exact arithmetic
\* can round: to that whole number (0) or just below it (1).  A rounding is
\* one choice for the x axis and one for the y axis.
Roundings == {0, 1} \X {0, 1}

\* A rounding as one number, and back.
RoundingCode(rd) == 2 * rd[1] + rd[2]

RoundingOf(n) == <<n \div 2, n % 2>>

\* ((x - dx) / H).floor() for a tracked x, computed on the integers n / d =
\* (x - dx) / H.  Where the quotient is a whole number f >= 1 in exact
\* arithmetic, the f64 quotient is f or the f64 just below f (0.6 - 0.2 is
\* 0.39999999999999997, and that over 0.4 is 0.9999999999999999): `down`
\* says which.  For an x that is not tracked the index is not used.
FloorQuot(x, dx, down) ==
    LET n == (x.a[1] * dx.a[2] - dx.a[1] * x.a[2]) * H.a[2]
        d == x.a[2] * dx.a[2] * H.a[1]
    IN  IF d = 0 THEN 0
        ELSE IF n % d # 0 THEN n \div d
        ELSE IF RLess(x.b, dx.b) THEN (n \div d) - 1
        ELSE IF x.b = dx.b /\ down = 1 /\ n \div d >= 1 THEN (n \div d) - 1
        ELSE n \div d

\* x0 = min(((x - dx) / H).floor() as usize, dim - 1)
Cell0(x, dx, dim, down) == IMin(AsUsize(FloorQuot(x, dx, down)), dim - 1)

\* The fraction measured from the grid line, not from the staggered sample
FracNoOffset(x, dx, x0) == Div(Sub(x, Mul(FromInt(x0), H)), H)

\* tx = ((x - dx) - x0 as f64 * H) / H
Frac(x, dx, x0) == Div(Sub(Sub(x, dx), Mul(FromInt(x0), H)), H)

\* The four sample indices and the two fractions at a clamped position.
Stencil(x, y, dx, dy, rd) ==
    LET x0 == Cell0(x, dx, width, rd[1])
        y0 == Cell0(y, dy, height, rd[2])
    IN  [x0 |-> x0, x1 |-> IMin(x0 + 1, width - 1), tx |-> Frac(x, dx, x0),
         y0 |-> y0, y1 |-> IMin(y0 + 1, height - 1), ty |-> Frac(y, dy, y0)]

\* The weights of f[x0,y0], f[x1,y0], f[x1,y1], f[x0,y1] (sim.rs:46-52).
Weights(g) ==
    LET sx == Sub(One, g.tx)
        sy == Sub(One, g.ty)
    IN  <<Mul(sx, sy), Mul(g.tx, sy), Mul(g.tx, g.ty), Mul(sx, g.ty)>>

Sample(f, dx, dy, xin, yin, rd) ==
    LET x == Clamp(xin, width)
        y == Clamp(yin, height)
    IN  IF IsTop(x) \/ IsTop(y) THEN Top
        ELSE
        LET g == Stencil(x, y, dx, dy, rd)
            w == Weights(g)
        IN  Add(Add(Add(Mul(w[1], f[<<g.x0, g.y0>>]),
                        Mul(w[2], f[<<g.x1, g.y0>>])),
                    Mul(w[3], f[<<g.x1, g.y1>>])),
                Mul(w[4], f[<<g.x0, g.y1>>]))

HalfH == Div(H, Num(2, 1))

SampleU(fu, x, y, rd) == Sample(fu, Zero, HalfH, x, y, rd)

SampleV(fv, x, y, rd) == Sample(fv, HalfH, Zero, x, y, rd)

SampleSmoke(fsmoke, x, y, rd) == Sample(fsmoke, HalfH, HalfH, x, y, rd)

(***************************************************************************)
(* Projection (sim.rs:107-135).  A projection state is [u, v, p].          *)
(***************************************************************************)
\* d * sk / s.  When every neighbour is SOLID, s = sk + sk + sk + sk has no
\* rational part and the factor EPSILON of d * sk cancels against that of s.
Weighted(d, sk, ss) ==
    IF IsTop(d) THEN Top
    ELSE IF ss.a[1] = 0 /\ ss.b[1] # 0 /\ sk.a[1] = 0
         THEN Mul(d, Mk(RDiv(sk.b, ss.b), R0))
    ELSE Div(Mul(d, sk), ss)

\* The body of the loops for one cell (sim.rs:112-131).
ProjectCell(st, x, y) ==
    IF s[<<x, y>>] # FLUID THEN st
    ELSE
    LET d == Mul(OVERRELAXATION_FACTOR,
                 Sub(Add(Sub(st.u[<<x + 1, y>>], st.u[<<x, y>>]), st.v[<<x, y + 1>>]),
                     st.v[<<x, y>>]))
        s1 == Classify(x - 1, y)
        s2 == Classify(x + 1, y)
        s3 == Classify(x, y - 1)
        s4 == Classify(x, y + 1)
        ss == Add(Add(Add(s1, s2), s3), s4)
    IN  IF ss = Zero THEN st
        ELSE [u |-> [st.u EXCEPT ![<<x, y>>] = Add(@, Weighted(d, s1, ss)),
                                 ![<<x + 1, y>>] = Sub(@, Weighted(d, s2, ss))],
              v |-> [st.v EXCEPT ![<<x, y>>] = Add(@, Weighted(d, s3, ss)),
                                 ![<<x, y + 1>>] = Sub(@, Weighted(d, s4, ss))],
              p |-> [st.p EXCEPT ![<<x, y>>] =
                        Sub(@, Div(Mul(Mul(Div(d, ss), DENSITY), H), DT))]]

\* The k-th cell visited in a sweep: for y in 0..height, for x in 0..width.
CellX(k) == k % width

CellY(k) == k \div width

\* The cell visits lo .. hi-1 of one sweep, in order (the left half is
\* computed before the right half is begun).
RECURSIVE SweepRange(_, _, _)
SweepRange(st, lo, hi) ==
    IF hi <= lo THEN st
    ELSE IF hi = lo + 1 THEN ProjectCell(st, CellX(lo), CellY(lo))
    ELSE LET mid == (lo + hi) \div 2
             left == SweepRange(st, lo, mid)
         IN  IF DOMAIN left = {} THEN left ELSE SweepRange(left, mid, hi)

SweepFrom(st, k) == SweepRange(st, k, width * height)

\* n further full sweeps.  A sweep is a function of the state, so once a
\* sweep changes nothing the remaining ones change nothing either.
RECURSIVE Sweeps(_, _)
Sweeps(st, n) ==
    IF n = 0 THEN st
    ELSE LET st2 == SweepFrom(st, 0)
         IN  IF st2 = st THEN st ELSE Sweeps(st2, n - 1)

\* The rest of projection after `done` cell visits.
ProjectionFrom(st, done) ==
    LET cells == width * height
        it == done \div cells
    IN  IF it >= NUM_PROJ_ITERATIONS THEN st
        ELSE Sweeps(SweepFrom(st, done % cells), NUM_PROJ_ITERATIONS - 1 - it)

(***************************************************************************)
(* Velocity advection (sim.rs:177-209).  A buffer state is [u, v], the     *)
(* clones new_u and new_v; fu and fv are self.u and self.v.                *)
(***************************************************************************)
\* advection resampling u from the buffer it is writing, not from self.u
AdvectUInPlace(fu, fv, nb, i, j, rd) ==
    IF i >= 1 /\ i < width /\ OpenU(i, j)
    THEN LET uu == nb.u[<<i, j>>]
             vv == AvgV(fv, i, j)
             x == Sub(Mul(FromInt(i), H), Mul(DT, uu))
             y == Sub(Add(Mul(FromInt(j), H), Mul(Half, H)), Mul(DT, vv))
         IN  [nb EXCEPT !.u[<<i, j>>] = SampleU(nb.u, x, y, rd)]
    ELSE nb

AdvectU(fu, fv, nb, i, j, rd) ==
    IF i >= 1 /\ i < width /\ OpenU(i, j)
    THEN LET uu == nb.u[<<i, j>>]
             vv == AvgV(fv, i, j)
             x == Sub(Mul(FromInt(i), H), Mul(DT, uu))
             y == Sub(Add(Mul(FromInt(j), H), Mul(Half, H)), Mul(DT, vv))
         IN  [nb EXCEPT !.u[<<i, j>>] = SampleU(fu, x, y, rd)]
    ELSE nb

AdvectV(fu, fv, nb, i, j, rd) ==
    IF j >= 1 /\ j < height /\ OpenV(i, j)
    THEN LET vv == nb.v[<<i, j>>]
             uu == AvgU(fu, i, j)
             x == Sub(Add(Mul(FromInt(i), H), Mul(Half, H)), Mul(DT, uu))
             y == Sub(Mul(FromInt(j), H), Mul(DT, vv))
         IN  [nb EXCEPT !.v[<<i, j>>] = SampleV(fv, x, y, rd)]
    ELSE nb

\* for j in 0..=height, for i in 0..=width: the visits lo .. hi-1, in order
RECURSIVE AdvectRange(_, _, _, _, _, _)
AdvectRange(fu, fv, nb, lo, hi, rd) ==
    IF hi <= lo THEN nb
    ELSE IF hi = lo + 1
         THEN LET i == lo % (width + 1)
                  j == lo \div (width + 1)
              IN  AdvectV(fu, fv, AdvectU(fu, fv, nb, i, j, rd), i, j, rd)
    ELSE LET mid == (lo + hi) \div 2
             left == AdvectRange(fu, fv, nb, lo, mid, rd)
         IN  IF DOMAIN left = {} THEN left
             ELSE AdvectRange(fu, fv, left, mid, hi, rd)

AdvectFrom(fu, fv, nb, k, rd) ==
    AdvectRange(fu, fv, nb, k, (width + 1) * (height + 1), rd)

Advection(fu, fv, rd) == AdvectFrom(fu, fv, [u |-> fu, v |-> fv], 0, rd)

(***************************************************************************)
(* Scalar advection (sim.rs:211-229).                                      *)
(***************************************************************************)
\* for j in 1..height, for i in 1..width
SmokeVisited(c) == c[1] >= 1 /\ c[1] < width /\ c[2] >= 1 /\ c[2] < height

\* The back-traced position of the centre of cell (i, j) (sim.rs:219-223).
SmokeBackTrace(fu, fv, i, j) ==
    LET uu == Mul(Half, Add(fu[<<i, j>>], fu[<<i + 1, j>>]))
        vv == Mul(Half, Add(fv[<<i, j>>], fv[<<i, j + 1>>]))
    IN  <<Sub(Add(Mul(FromInt(i), H), Mul(Half, H)), Mul(DT, uu)),
          Sub(Add(Mul(FromInt(j), H), Mul(Half, H)), Mul(DT, vv))>>

SmokeAdvection(fu, fv, fsmoke, rd) ==
    [c \in DOMAIN fsmoke |->
        IF SmokeVisited(c) /\ s[c] = FLUID
        THEN LET pos == SmokeBackTrace(fu, fv, c[1], c[2])
             IN  SampleSmoke(fsmoke, pos[1], pos[2], rd)
        ELSE fsmoke[c]]

(***************************************************************************)
(* step (sim.rs:168-175; WITH_GRAVITY is false, so step does not run       *)
(* gravitation, which is public and is an operation of its own).           *)
(* The first MaxVisits executions of projection's loop body are steps of   *)
(* their own; FinishStep is all the rest of step().                        *)
(***************************************************************************)
\* The fields after advection and smoke_advection, given the projected
\* state st and the advected velocities nb.
Advected(st, nb, rd) ==
    [u |-> nb.u, v |-> nb.v, p |-> st.p,
     smoke |-> SmokeAdvection(nb.u, nb.v, smoke, rd)]

AdvectionOf(st, rd) == Advected(st, Advection(st.u, st.v, rd), rd)

\* v after gravitation(dt): every open v-face of the cells gains GRAVITY * dt.
Gravitated(fv, dt) ==
    [c \in DOMAIN fv |->
        IF c[1] < width /\ c[2] < height /\ OpenV(c[1], c[2])
        THEN Add(fv[c], Mul(GRAVITY, dt))
        ELSE fv[c]]

\* gravitation(dt), called between steps.
Gravitation(dt) ==
    /\ pc = "idle"
    /\ ops.gravs < MaxGravs
    /\ v' = Gravitated(v, dt)
    /\ last' = Op("gravitation", 0, 0, 0)
    /\ pre' = Current
    /\ ops' = [ops EXCEPT !.gravs = @ + 1]
    /\ UNCHANGED <<width, height, u, s, p, smoke, pc, cur, out>>

BeginStep ==
    /\ pc = "idle"
    /\ ops.steps < MaxSteps
    /\ pc' = "projection"
    /\ p' = [c \in DOMAIN p |-> Zero]
    /\ cur' = 0
    /\ last' = Op("step", 0, 0, 0)
    /\ pre' = Current
    /\ ops' = [ops EXCEPT !.steps = @ + 1]
    /\ UNCHANGED <<width, height, u, v, s, smoke, out>>

ProjectVisit ==
    /\ pc = "projection"
    /\ cur < MaxVisits
    /\ cur < NUM_PROJ_ITERATIONS * width * height
    /\ \E k \in {cur % (width * height)} :
          /\ \E st \in {ProjectCell([u |-> u, v |-> v, p |-> p], CellX(k), CellY(k))} :
                u' = st.u /\ v' = st.v /\ p' = st.p
          /\ last' = Op("cell", CellX(k), CellY(k), 0)
    /\ cur' = cur + 1
    /\ pre' = Current
    /\ UNCHANGED <<width, height, s, smoke, pc, ops, out>>

FinishStep ==
    /\ pc = "projection"
    /\ cur = MaxVisits \/ cur >= NUM_PROJ_ITERATIONS * width * height
    /\ \E st \in {ProjectionFrom([u |-> u, v |-> v, p |-> p], cur)} :
          \E rd \in Roundings :
              \E f \in {AdvectionOf(st, rd)} :
                  u' = f.u /\ v' = f.v /\ p' = f.p /\ smoke' = f.smoke
    /\ pc' = "idle"
    /\ cur' = 0
    /\ last' = Op("finish", 0, 0, 0)
    /\ pre' = Current
    /\ UNCHANGED <<width, height, s, ops, out>>

Next ==
    \/ Construct
    \/ \E cx \in Centres, st \in Stamps : DrawObstacle(cx, st[1], st[2])
    \/ Reset
    \/ ResetExceptWalls
    \/ \E dt \in {DT} : Gravitation(dt)
    \/ BeginStep
    \/ ProjectVisit
    \/ FinishStep

Spec == Init /\ [][Next]_vars

(***************************************************************************)
(* Sampling and scalar advection applied to given fields.  The fields are  *)
(* those of a constructed simulation after some steps: the boundary        *)
(* u-columns hold WINDSPEED, the boundary v-rows 0, column 0 and row 0 of  *)
(* smoke the seeded bands, and the entries a step rewrites hold values     *)
(* drawn from small families.                                              *)
(***************************************************************************)
\* Families of field values: 0 .. MaxPattern.
MaxPattern == 1

\* A field value for index c in family k: one of -1, 0, 1, 2, 3, different
\* from the values of the four neighbouring indices.
PatternValue(c, k) == Num(((c[1] + 2 * c[2] + k) % 5) - 1, 1)

PatternU(w, h, k) ==
    [c \in Indices(w + 1, h) |->
        IF c[1] = 0 \/ c[1] = w THEN WINDSPEED ELSE PatternValue(c, k)]

PatternV(w, h, k) ==
    [c \in Indices(w, h + 1) |->
        IF c[2] = 0 \/ c[2] = h THEN Zero ELSE PatternValue(c, k + 1)]

PatternSmoke(w, h, k) ==
    [c \in Indices(w, h) |->
        IF c[1] = 0 \/ c[2] = 0 THEN FreshSmoke(w, h)[c]
        ELSE PatternValue(c, k + 2)]

\* Uniform interior velocities cu and cv.
UniformU(w, h, cu) ==
    [c \in Indices(w + 1, h) |->
        IF c[1] = 0 \/ c[1] = w THEN WINDSPEED ELSE Num(cu, 1)]

UniformV(w, h, cv) ==
    [c \in Indices(w, h + 1) |->
        IF c[2] = 0 \/ c[2] = h THEN Zero ELSE Num(cv, 1)]

VelSamples == {-10, -1, 0, 1, 10}

InitCommon ==
    /\ width \in Widths
    /\ height \in Heights
    /\ ~NewPanics(width, height)
    /\ pc = "idle"
    /\ cur = 0
    /\ last = Op("none", 0, 0, 0)
    /\ pre = NoFields
    /\ ops = [stamps |-> 0, steps |-> 0, gravs |-> 0]
    /\ out = Zero

InitSample ==
    /\ InitCommon
    /\ \E k \in 0 .. MaxPattern :
          /\ u = PatternU(width, height, k)
          /\ v = PatternV(width, height, k)
          /\ smoke = PatternSmoke(width, height, k)
    /\ s = FreshS(width, height)
    /\ p = FreshP(width, height)

\* sample_<field> at the physical position of the stored sample (i, j)
SampleAt(name, f, dx, dy, i, j, rd) ==
    /\ pc = "idle"
    /\ last.op = "none"
    /\ <<i, j>> \in DOMAIN f
    /\ out' = Sample(f, dx, dy, Add(Mul(FromInt(i), H), dx),
                     Add(Mul(FromInt(j), H), dy), rd)
    /\ last' = Op(name, i, j, RoundingCode(rd))
    /\ UNCHANGED <<width, height, u, v, s, p, smoke, pc, cur, pre, ops>>

NextSample ==
    \E i \in 0 .. width, j \in 0 .. height, rd \in Roundings :
        \/ SampleAt("sample_u", u, Zero, HalfH, i, j, rd)
        \/ SampleAt("sample_v", v, HalfH, Zero, i, j, rd)
        \/ SampleAt("sample_smoke", smoke, HalfH, HalfH, i, j, rd)

SpecSample == InitSample /\ [][NextSample]_vars

InitSmoke ==
    /\ InitCommon
    /\ \E cu \in VelSamples, cv \in VelSamples, k \in 0 .. MaxPattern,
          stamped \in BOOLEAN :
          LET f == Fields(UniformU(width, height, cu), UniformV(width, height, cv),
                          FreshS(width, height), FreshP(width, height),
                          PatternSmoke(width, height, k))
              g == IF stamped THEN Drawn(f, width - 1, 2, 0) ELSE f
          IN  /\ u = g.u /\ v = g.v /\ s = g.s /\ p = g.p /\ smoke = g.smoke

SmokeAdvectionStep ==
    /\ pc = "idle"
    /\ last.op = "none"
    /\ \E rd \in Roundings :
          /\ smoke' = SmokeAdvection(u, v, smoke, rd)
          /\ last' = Op("smoke_advection", 0, 0, RoundingCode(rd))
    /\ pre' = Current
    /\ UNCHANGED <<width, height, u, v, s, p, pc, cur, ops, out>>

NextSmoke == SmokeAdvectionStep

SpecSmoke == InitSmoke /\ [][NextSmoke]_vars

(***************************************************************************)
(* Velocity advection applied to given fields: interior velocities are a   *)
(* family value shifted by cu or cv, so neighbouring faces differ.         *)
(***************************************************************************)
ShiftedU(w, h, k, cu) ==
    [c \in Indices(w + 1, h) |->
        IF c[1] = 0 \/ c[1] = w THEN WINDSPEED
        ELSE Add(PatternValue(c, k), Num(cu, 1))]

ShiftedV(w, h, k, cv) ==
    [c \in Indices(w, h + 1) |->
        IF c[2] = 0 \/ c[2] = h THEN Zero
        ELSE Add(PatternValue(c, k + 1), Num(cv, 1))]

\* The shifts offered to the velocity families.
Shifts == {-1, 1}

InitAdvect ==
    /\ InitCommon
    /\ \E cu \in Shifts, cv \in Shifts, k \in 0 .. MaxPattern, stamped \in BOOLEAN :
          LET f == Fields(ShiftedU(width, height, k, cu), ShiftedV(width, height, k, cv),
                          FreshS(width, height), FreshP(width, height),
                          FreshSmoke(width, height))
              g == IF stamped THEN Drawn(f, width - 1, 2, 0) ELSE f
          IN  /\ u = g.u /\ v = g.v /\ s = g.s /\ p = g.p /\ smoke = g.smoke

AdvectionStep ==
    /\ pc = "idle"
    /\ last.op = "none"
    /\ \E rd \in Roundings :
          /\ \E nb \in {Advection(u, v, rd)} : u' = nb.u /\ v' = nb.v
          /\ last' = Op("advection", 0, 0, RoundingCode(rd))
    /\ pre' = Current
    /\ UNCHANGED <<width, height, s, p, smoke, pc, cur, ops, out>>

NextAdvect == AdvectionStep

SpecAdvect == InitAdvect /\ [][NextAdvect]_vars

(***************************************************************************)
(* Properties.  `pre` holds the fields as they were before the last        *)
(* action, `last` names that action and its arguments.                     *)
(***************************************************************************)
Built == pc \in {"idle", "projection"}

\* The leftmost and rightmost u-face columns of fu hold the inflow speed.
Pinned(fu) ==
    \A y \in 0 .. height - 1 :
        fu[<<0, y>>] = WINDSPEED /\ fu[<<width, y>>] = WINDSPEED

AllFluid == \A c \in DOMAIN s : s[c] = FLUID

\* The index c lies within radius r2/2 of (cx, cy).
Within(c, cx, cy, r2) ==
    4 * ((c[1] - cx) * (c[1] - cx) + (c[2] - cy) * (c[2] - cy)) <= r2 * r2

\* C1: Simulation::new(width, height) completes without a fatal error for
\* every width >= 1 and height >= 1.
C1_NewCompletes == (width >= 1 /\ height >= 1) => pc # "panicked"

\* C2: from a state with every cell FLUID and both boundary u-columns at
\* WINDSPEED, neither projection nor advection writes a different value to
\* those columns: they hold WINDSPEED throughout and after step().
C2_InflowPinnedThroughStep ==
    (Built /\ last.op \in {"cell", "finish"} /\ AllFluid /\ Pinned(pre.u))
        => Pinned(u)

\* C3: in every state reached from construction by edit operations alone
\* (draw_obstacle, reset, reset_except_walls) the boundary u-columns hold
\* WINDSPEED.
C3_EditsKeepInflowPinned == (pc = "idle" /\ ops.steps = 0) => Pinned(u)

\* C4 as claimed: a cell that is SOLID stays SOLID under every operation.
C4_SolidForever ==
    Built => \A c \in DOMAIN pre.s : pre.s[c] = SOLID => s[c] = SOLID

\* C4 as amended: a SOLID cell stays SOLID under step, gravitation,
\* draw_obstacle and reset_except_walls; reset makes every cell FLUID.
C4_SolidUntilReset ==
    Built =>
        IF last.op = "reset" THEN AllFluid
        ELSE \A c \in DOMAIN pre.s : pre.s[c] = SOLID => s[c] = SOLID

\* An obstacle stamped, after a step, on a grid that already holds a SOLID
\* cell outside the new disc: that cell stays SOLID while a FLUID cell of the
\* disc becomes SOLID.
C4_Witness ==
    /\ pc = "idle"
    /\ last.op = "draw_obstacle"
    /\ ops.steps = 1
    /\ \E c \in DOMAIN s :
          /\ pre.s[c] = SOLID /\ s[c] = SOLID
          /\ ~Within(c, last.x, last.y, last.r)
    /\ \E c \in DOMAIN s : pre.s[c] = FLUID /\ s[c] = SOLID
    /\ \E c \in DOMAIN s : s[c] = FLUID

\* C6: after draw_obstacle(cx, cy, r) every cell within r of the centre is
\* SOLID with p = 0 and smoke = 0, every u and v face within r + 1 is 0, and
\* every other cell and face is as before.
C6_ObstaclePostcondition ==
    last.op = "draw_obstacle" =>
        /\ \A c \in DOMAIN s :
              IF Within(c, last.x, last.y, last.r)
              THEN s[c] = SOLID /\ p[c] = Zero /\ smoke[c] = Zero
              ELSE s[c] = pre.s[c] /\ p[c] = pre.p[c] /\ smoke[c] = pre.smoke[c]
        /\ \A c \in DOMAIN u :
              u[c] = IF Within(c, last.x, last.y, last.r + 2) THEN Zero ELSE pre.u[c]
        /\ \A c \in DOMAIN v :
              v[c] = IF Within(c, last.x, last.y, last.r + 2) THEN Zero ELSE pre.v[c]

\* A disc clipped by the grid edge, stamped on a state that a step and an
\* earlier obstacle have shaped, zeroing a face outside the solid disc.
C6_Witness ==
    /\ last.op = "draw_obstacle" /\ last.x = 0 /\ last.y = 0 /\ last.r = 5
    /\ ops.steps = 1 /\ ops.stamps = 2
    /\ \E c \in DOMAIN u :
          /\ ~Within(c, last.x, last.y, last.r)
          /\ pre.u[c] # Zero /\ u[c] = Zero
    /\ \E c \in DOMAIN s : pre.s[c] = FLUID /\ s[c] = SOLID

\* C7: after reset_except_walls the classification field is as it was and
\* u, v, p and smoke are those of a fresh construction.
C7_PartialReset ==
    last.op = "reset_except_walls" =>
        /\ s = pre.s
        /\ \A c \in DOMAIN u :
              u[c] = IF c[1] = 0 \/ c[1] = width THEN WINDSPEED ELSE Zero
        /\ DOMAIN u = Indices(width + 1, height)
        /\ v = [c \in Indices(width, height + 1) |-> Zero]
        /\ p = [c \in Indices(width, height) |-> Zero]
        /\ smoke = [c \in Indices(width, height) |->
                       IF c[1] = 0 /\ c[2] \in BandRows(height) THEN One ELSE Zero]

\* reset_except_walls called after an obstacle and a step (the pressure,
\* which only projection makes nonzero, differs before the call).
C7_Witness ==
    /\ last.op = "reset_except_walls"
    /\ ops.stamps >= 1
    /\ \E c \in DOMAIN s : s[c] = SOLID
    /\ pre.u # u /\ pre.smoke # smoke /\ pre.v # v /\ pre.p # p

\* The four neighbours of cell (x, y) are SOLID (one step outside the domain
\* counts as SOLID).
Enclosed(x, y) ==
    /\ Classify(x - 1, y) = SOLID /\ Classify(x + 1, y) = SOLID
    /\ Classify(x, y - 1) = SOLID /\ Classify(x, y + 1) = SOLID

\* C10: projection skips a FLUID cell whose four neighbours are SOLID: its
\* four face velocities are unchanged and its pressure stays 0.
C10_EnclosedCellSkipped ==
    (pc = "projection" /\ last.op = "cell"
        /\ s[<<last.x, last.y>>] = FLUID /\ Enclosed(last.x, last.y))
    => /\ u[<<last.x, last.y>>] = pre.u[<<last.x, last.y>>]
       /\ u[<<last.x + 1, last.y>>] = pre.u[<<last.x + 1, last.y>>]
       /\ v[<<last.x, last.y>>] = pre.v[<<last.x, last.y>>]
       /\ v[<<last.x, last.y + 1>>] = pre.v[<<last.x, last.y + 1>>]
       /\ p[<<last.x, last.y>>] = Zero

\* The field a sample action read, and the sample it was aimed at.
SampledField ==
    IF last.op = "sample_u" THEN u ELSE IF last.op = "sample_v" THEN v ELSE smoke

Sampled == last.op \in {"sample_u", "sample_v", "sample_smoke"}

\* C5 as claimed: sampling a field at the position of any of its stored
\* samples returns that sample.
C5_RoundTripEverywhere ==
    Sampled => out = SampledField[<<last.x, last.y>>]

\* C5 as amended: it does for the stored indices (i, j) with
\* 1 <= i <= width - 1 and 1 <= j <= height - 1.
C5_RoundTripInterior ==
    (Sampled /\ last.x >= 1 /\ last.x <= width - 1
             /\ last.y >= 1 /\ last.y <= height - 1)
        => out = SampledField[<<last.x, last.y>>]

\* An interior sample of v read back where both quotients round below the
\* whole number: the blend puts weight 1 on the upper right sample.
C5_Witness ==
    /\ last.op = "sample_v" /\ last.x = width - 1 /\ last.x >= 1
    /\ last.y = height - 1
    /\ RoundingOf(last.r) = <<1, 1>>
    /\ Stencil(Add(Mul(FromInt(last.x), H), HalfH), Mul(FromInt(last.y), H),
               HalfH, Zero, RoundingOf(last.r)).x0 = last.x - 1
    /\ out = v[<<last.x, last.y>>]
    /\ out # v[<<last.x - 1, last.y>>] /\ out # v[<<last.x, last.y + 1>>]

\* The values of a field
Values(f) == {f[c] : c \in DOMAIN f}

LessEq(x, y) == ~IsTop(x) /\ ~IsTop(y) /\ ~Less(y, x)

\* C8: every value smoke_advection writes is a convex combination of values
\* of the old smoke field (four weights in [0,1] summing to 1), so every new
\* value lies between the minimum and the maximum of the old field.
C8_MaximumPrinciple ==
    last.op = "smoke_advection" =>
        \A c \in DOMAIN smoke :
            /\ \E lo \in Values(pre.smoke), hi \in Values(pre.smoke) :
                  LessEq(lo, smoke[c]) /\ LessEq(smoke[c], hi)
            /\ (SmokeVisited(c) /\ s[c] = FLUID) =>
                  LET pos == SmokeBackTrace(pre.u, pre.v, c[1], c[2])
                      g == Stencil(Clamp(pos[1], width), Clamp(pos[2], height),
                                   HalfH, HalfH, RoundingOf(last.r))
                      w == Weights(g)
                  IN  /\ \A k \in 1 .. 4 : LessEq(Zero, w[k]) /\ LessEq(w[k], One)
                      /\ Add(Add(Add(w[1], w[2]), w[3]), w[4]) = One
                      /\ smoke[c] =
                            Add(Add(Add(Mul(w[1], pre.smoke[<<g.x0, g.y0>>]),
                                        Mul(w[2], pre.smoke[<<g.x1, g.y0>>])),
                                    Mul(w[3], pre.smoke[<<g.x1, g.y1>>])),
                                Mul(w[4], pre.smoke[<<g.x0, g.y1>>]))

\* A cell whose back-traced position is clamped at the left edge and blends
\* two different old values with weights strictly between 0 and 1.
C8_Witness ==
    /\ last.op = "smoke_advection"
    /\ \E c \in DOMAIN smoke :
          /\ SmokeVisited(c) /\ s[c] = FLUID
          /\ LET pos == SmokeBackTrace(pre.u, pre.v, c[1], c[2])
                 g == Stencil(Clamp(pos[1], width), Clamp(pos[2], height),
                              HalfH, HalfH, RoundingOf(last.r))
             IN  /\ Less(pos[1], H)
                 /\ Less(Zero, g.tx) /\ Less(Zero, g.ty)
                 /\ pre.smoke[<<g.x0, g.y0>>] # pre.smoke[<<g.x1, g.y0>>]
          /\ smoke[c] # pre.smoke[c]
          /\ smoke[c] \notin Values(pre.smoke)

\* Advection computed from the fields as they were when it began and from
\* nothing else: every face reads fu and fv only.
AdvectionSnapshot(fu, fv, rd) ==
    [u |-> [c \in DOMAIN fu |->
               IF c[1] >= 1 /\ c[1] < width /\ OpenU(c[1], c[2])
               THEN SampleU(fu,
                        Sub(Mul(FromInt(c[1]), H), Mul(DT, fu[c])),
                        Sub(Add(Mul(FromInt(c[2]), H), Mul(Half, H)),
                            Mul(DT, AvgV(fv, c[1], c[2]))), rd)
               ELSE fu[c]],
     v |-> [c \in DOMAIN fv |->
               IF c[2] >= 1 /\ c[2] < height /\ OpenV(c[1], c[2])
               THEN SampleV(fv,
                        Sub(Add(Mul(FromInt(c[1]), H), Mul(Half, H)),
                            Mul(DT, AvgU(fu, c[1], c[2]))),
                        Sub(Mul(FromInt(c[2]), H), Mul(DT, fv[c])), rd)
               ELSE fv[c]]]

\* The loop body of advection applied to the faces in the reverse of the
\* code's order: the visits lo .. hi-1 counted from the last face.
RECURSIVE AdvectReversed(_, _, _, _, _, _)
AdvectReversed(fu, fv, nb, lo, hi, rd) ==
    IF hi <= lo THEN nb
    ELSE IF hi = lo + 1
         THEN LET n == (width + 1) * (height + 1) - 1 - lo
                  i == n % (width + 1)
                  j == n \div (width + 1)
              IN  AdvectU(fu, fv, AdvectV(fu, fv, nb, i, j, rd), i, j, rd)
    ELSE LET mid == (lo + hi) \div 2
         IN  CHOOSE r \in {AdvectReversed(fu, fv, left, mid, hi, rd) :
                              left \in {AdvectReversed(fu, fv, nb, lo, mid, rd)}} : TRUE

\* C11: the u and v that advection leaves are those computed from the
\* snapshot of u and v taken when it began, and are the same when the faces
\* are visited in the reverse order.
C11_DoubleBuffered ==
    last.op = "advection" =>
        /\ [u |-> u, v |-> v] = AdvectionSnapshot(pre.u, pre.v, RoundingOf(last.r))
        /\ [u |-> u, v |-> v] =
              AdvectReversed(pre.u, pre.v, [u |-> pre.u, v |-> pre.v], 0,
                             (width + 1) * (height + 1), RoundingOf(last.r))

\* A u-face (i, j) whose resampling reads the u-face (i, j-1) with a weight
\* above 0, where both faces were rewritten with tracked values in the pass
\* and the upper one, visited first, was changed by it; and a v-face changed.
C11_Witness ==
    /\ last.op = "advection"
    /\ \E i \in 1 .. width - 1, j \in 1 .. height - 1 :
          /\ OpenU(i, j) /\ OpenU(i, j - 1)
          /\ ~IsTop(u[<<i, j>>]) /\ ~IsTop(u[<<i, j - 1>>])
          /\ u[<<i, j - 1>>] # pre.u[<<i, j - 1>>]
          /\ u[<<i, j>>] # pre.u[<<i, j>>]
          /\ LET x == Sub(Mul(FromInt(i), H), Mul(DT, pre.u[<<i, j>>]))
                 y == Sub(Add(Mul(FromInt(j), H), Mul(Half, H)),
                          Mul(DT, AvgV(pre.v, i, j)))
                 g == Stencil(Clamp(x, width), Clamp(y, height), Zero, HalfH,
                              RoundingOf(last.r))
             IN  g.x0 = i /\ g.y0 = j - 1 /\ Less(g.ty, One) /\ Less(g.tx, One)
    /\ \E c \in DOMAIN v : v[c] # pre.v[c] /\ ~IsTop(v[c])

\* C9: smoke_advection leaves the outer ring and every SOLID cell unchanged.
C9_RingAndSolidUnchanged ==
    last.op = "smoke_advection" =>
        \A c \in DOMAIN smoke :
            (c[1] = 0 \/ c[1] = width - 1 \/ c[2] = 0 \/ c[2] = height - 1
                \/ s[c] = SOLID)
            => smoke[c] = pre.smoke[c]
====
